---- MODULE Spec2Model ----
(***************************************************************************)
(* osgEarth CacheBin.cpp: the write pipeline of CacheBin::writeNode        *)
(* (PrepareForCaching, WriteExternalReferencesToCache, final write) and    *)
(* the osgearth_cachebin pseudo-loader that resolves rewritten image       *)
(* references on read.                                                     *)
(*                                                                         *)
(* Strings are sequences of one-character strings, so that prefix tests,   *)
(* extension stripping, lower-casing and hex formatting are computed.      *)
(***************************************************************************)
EXTENDS Integers, Sequences, FiniteSets, TLC

(* ------------------------------ bounds --------------------------------- *)

\* Number of writeNode calls started over a whole run.
MaxCalls == 2

\* Writes the bin rejects over a whole run.
MaxRejects == 1

\* Range of the modelled string hash (the program's is 32 bits wide).
HashMod == 251

(* ------------------------------ strings -------------------------------- *)

\* #define IMAGE_PREFIX "i_"
IMAGE_PREFIX == <<"i", "_">>

\* The literal ".osgearth_cachebin" appended at the rewrite.
CACHEBIN_SUFFIX ==
    <<".", "o", "s", "g", "e", "a", "r", "t", "h", "_",
      "c", "a", "c", "h", "e", "b", "i", "n">>

\* The literal "osgearth_cachebin" the pseudo-loader compares against.
CACHEBIN_EXT ==
    <<"o", "s", "g", "e", "a", "r", "t", "h", "_",
      "c", "a", "c", "h", "e", "b", "i", "n">>

HexDigits ==
    <<"0", "1", "2", "3", "4", "5", "6", "7",
      "8", "9", "a", "b", "c", "d", "e", "f">>

UpperCase ==
    <<"A", "B", "C", "D", "E", "F", "G", "H", "I", "J", "K", "L", "M",
      "N", "O", "P", "Q", "R", "S", "T", "U", "V", "W", "X", "Y", "Z">>

LowerCase ==
    <<"a", "b", "c", "d", "e", "f", "g", "h", "i", "j", "k", "l", "m",
      "n", "o", "p", "q", "r", "s", "t", "u", "v", "w", "x", "y", "z">>

\* Character codes used by the hash: position in this table, 0 when absent.
CodeTable ==
    LowerCase \o UpperCase \o
    <<"0", "1", "2", "3", "4", "5", "6", "7", "8", "9", "_", ".", "/">>

CodeOf ==
    [c \in {CodeTable[n] : n \in 1..Len(CodeTable)} |->
        CHOOSE n \in 1..Len(CodeTable) : CodeTable[n] = c]

CharCode(c) == IF c \in DOMAIN CodeOf THEN CodeOf[c] ELSE 0

\* osgEarth::startsWith(ref, pattern), case sensitive.
startsWith(ref, pattern) ==
    /\ Len(pattern) <= Len(ref)
    /\ \A n \in 1..Len(pattern) : ref[n] = pattern[n]

\* osgEarth::hashString(input): an unsigned hash of the characters.
RECURSIVE hashFold(_, _, _)
hashFold(input, n, h) ==
    IF n > Len(input) THEN h
    ELSE hashFold(input, n + 1, (h * 31 + CharCode(input[n]) + 1) % HashMod)

hashString(input) == hashFold(input, 1, 7 % HashMod)

\* Stringify() << std::hex << unsigned: lower-case hex, no leading zeros.
RECURSIVE Hex(_)
Hex(n) ==
    IF n < 16 THEN <<HexDigits[n + 1]>>
    ELSE Hex(n \div 16) \o <<HexDigits[(n % 16) + 1]>>

\* Index of the last occurrence of a character of cs in s, 0 when none
\* (std::string::find_last_of).
RECURSIVE lastBefore(_, _, _)
lastBefore(s, cs, n) ==
    IF n = 0 THEN 0
    ELSE IF s[n] \in cs THEN n
    ELSE lastBefore(s, cs, n - 1)

find_last_of(s, cs) == lastBefore(s, cs, Len(s))

LowerOf == [n \in 1..26 |-> LowerCase[n]]

UpperIndex ==
    [c \in {UpperCase[n] : n \in 1..26} |->
        CHOOSE n \in 1..26 : UpperCase[n] = c]

toLowerChar(c) == IF c \in DOMAIN UpperIndex THEN LowerOf[UpperIndex[c]] ELSE c

convertToLowerCase(s) == [n \in 1..Len(s) |-> toLowerChar(s[n])]

\* osgDB::getFileExtension: the text after the last '.', when that dot is
\* not before the last path separator.
getFileExtension(fileName) ==
    LET dot   == find_last_of(fileName, {"."})
        slash == find_last_of(fileName, {"/", "\\"})
    IN  IF dot = 0 \/ (slash # 0 /\ dot < slash) THEN <<>>
        ELSE SubSeq(fileName, dot + 1, Len(fileName))

getLowerCaseFileExtension(fileName) ==
    convertToLowerCase(getFileExtension(fileName))

\* osgDB::getNameLessExtension: the text before that last '.'.
getNameLessExtension(fileName) ==
    LET dot   == find_last_of(fileName, {"."})
        slash == find_last_of(fileName, {"/", "\\"})
    IN  IF dot = 0 \/ (slash # 0 /\ dot < slash) THEN fileName
        ELSE SubSeq(fileName, 1, dot - 1)

(* --------------------------- the Cache Bin ----------------------------- *)

STATUS_OK        == "STATUS_OK"
STATUS_EXPIRED   == "STATUS_EXPIRED"
STATUS_NOT_FOUND == "STATUS_NOT_FOUND"

RecordStatus == {STATUS_OK, STATUS_EXPIRED, STATUS_NOT_FOUND}

\* CacheBin::getRecordStatus(key) on a bin holding the records `bin`
\* (a function from keys to records).
getRecordStatus(bin, key) ==
    IF key \in DOMAIN bin THEN bin[key].status ELSE STATUS_NOT_FOUND

\* CacheBin::write(key, object, ...) that the bin accepted: the record is
\* stored and is valid from then on.
binWrite(bin, key, payload) ==
    (key :> [status |-> STATUS_OK, payload |-> payload]) @@ bin

\* CacheBin::readObject(key, options): any stored record is an object.
binReadObject(bin, key) ==
    IF key \in DOMAIN bin
    THEN [succeeded |-> TRUE, resource |-> bin[key].payload]
    ELSE [succeeded |-> FALSE, resource |-> [kind |-> "none"]]

\* CacheBin::readImage(key, options): only a stored image is an image.
binReadImage(bin, key) ==
    IF key \in DOMAIN bin /\ bin[key].payload.kind = "image"
    THEN [succeeded |-> TRUE, resource |-> bin[key].payload]
    ELSE [succeeded |-> FALSE, resource |-> [kind |-> "none"]]

(* ------------------- decisions of the Asset Externalizer --------------- *)

\* if (!osgEarth::startsWith(path, IMAGE_PREFIX))
needsExternalizeAlways(path) == TRUE

needsExternalizeUnlessMarked(path) ==
    ~(startsWith(path, IMAGE_PREFIX)
        /\ getLowerCaseFileExtension(path) = CACHEBIN_EXT)

needsExternalize(path) == ~startsWith(path, IMAGE_PREFIX)

\* cacheKey = Stringify() << IMAGE_PREFIX << std::hex << hashString(path)
cacheKeyOf(path) == IMAGE_PREFIX \o Hex(hashString(path))

\* image.setFileName(cacheKey + ".osgearth_cachebin")
rewrittenFileNameOsgb(cacheKey) == cacheKey \o <<".", "o", "s", "g", "b">>

rewrittenFileName(cacheKey) == cacheKey \o CACHEBIN_SUFFIX

\* if (rs != CacheBin::STATUS_OK)
shouldWriteOnlyNotFound(rs) == rs = STATUS_NOT_FOUND

shouldWriteAlways(rs) == TRUE

shouldWrite(rs) == rs # STATUS_OK

\* if (!_bin->write(cacheKey, &image, dbo.get())) { OE_WARN ... }: where the
\* thread goes on after the write.
afterWriteReturnOnFailure(accepted) == IF accepted THEN "unlock" ELSE "done"

afterWrite(accepted) == "unlock"

\* write(key, node, metadata, writeOptions); return true;
writeNodeResult(graphWritten) == TRUE

\* osgDB::Options objects: which object it is, and its plugin string data.
\* NullOptions stands for a null pointer.
NullOptions == [object |-> [kind |-> "null", serial |-> 0],
                pluginStringData |-> <<>>]

\* Registry::cloneOrCreateOptions: a new object, a copy of `options` when
\* there is one, empty otherwise.
cloneOrCreateOptions(options, serial) ==
    [object |-> [kind |-> "dbo", serial |-> serial],
     pluginStringData |-> IF options = NullOptions THEN <<>>
                          ELSE options.pluginStringData]

\* osgDB::Options::setPluginStringData(key, value).
setPluginStringData(options, key, value) ==
    [options EXCEPT !.pluginStringData = (key :> value) @@ @]

\* The options of one asset write: dbo handed to _bin->write, and the
\* caller's _writeOptions as the statement leaves them.
perWriteOptionsInPlace(writeOptions, serial) ==
    LET stamped == setPluginStringData(writeOptions, "WriteImageHint",
                                       "IncludeData")
    IN  [dbo |-> stamped, writeOptions |-> stamped]

perWriteOptions(writeOptions, serial) ==
    [dbo |-> setPluginStringData(cloneOrCreateOptions(writeOptions, serial),
                                 "WriteImageHint", "IncludeData"),
     writeOptions |-> writeOptions]

\* The options of the final write(key, node, metadata, writeOptions).
graphWriteOptions(writeOptions) == writeOptions

\* node->accept(writeRefs) has returned: the externalizer has been applied
\* to each of the `count` images of the graph, the k-th being next.
traversalFinishedAlways(k, count) == TRUE

traversalFinished(k, count) == k > count

\* Node masks, as sets of bit positions. AllBits is ~0; a NodeVisitor's
\* traversal mask is all bits unless it is set otherwise.
AllBits == 0..31

TraversalMask == AllBits

\* setNodeMaskOverride(~0) in the constructor of PrepareForCaching.
prepNodeMaskOverrideNone == {}

prepNodeMaskOverride == AllBits

\* setNodeMaskOverride(~0L) in the constructor of
\* WriteExternalReferencesToCache.
writeRefsNodeMaskOverride == AllBits

\* osg::NodeVisitor::validNodeMask, which osg::Node::accept consults:
\* (traversalMask & (nodeMaskOverride | nodeMask)) != 0.
validNodeMask(nodeMaskOverride, nodeMask) ==
    (TraversalMask \cap (nodeMaskOverride \cup nodeMask)) # {}


\* Threading::ScopedMutexLock on _globalMutex (0: nobody holds it): the
\* constructor returns only once the mutex is free.
lockableAlways(mutex) == TRUE

lockable(mutex) == mutex = 0

(* ----------------------------- the scene ------------------------------- *)

NullId == "null"

Nodes     == {"N1", "N2"}
Drawables == {"D1", "D2"}
StateSets == {"S1", "S2"}
Textures  == {"T1", "T2", "T3"}
Images    == {"I1", "I2", "I3"}
Threads   == {1, 2}

\* Caller-supplied keys of the two graphs.
GraphKey == [N1 |-> <<"g", "1">>, N2 |-> <<"g", "2">>]

\* The write options each caller passes: none, or options of its own that
\* already carry a WriteImageHint.
CallerOptions ==
    [N1 |-> NullOptions,
     N2 |-> [object |-> [kind |-> "caller", serial |-> 0],
             pluginStringData |->
                 ("WriteImageHint" :> "UseExternal") @@
                 ("Compressor" :> "zlib")]]

\* The metadata (Config) each caller passes with its graph.
GraphMeta == [N1 |-> "meta1", N2 |-> "meta2"]

\* Original file names: blank, two ordinary names, and a name that itself
\* begins with the prefix.
BlankName  == <<>>
NameA      == <<"a", ".", "p", "n", "g">>
NameB      == <<"/", "d", ".", "x", "/", "b">>
NamePrefixed == <<"i", "_", "p", ".", "p", "n", "g">>

FileNames == {BlankName, NameA, NameB, NamePrefixed}

\* The shallow clone made for slot n of a state set's texture attribute list.
CloneId == [S1 |-> <<"C11", "C12", "C13">>, S2 |-> <<"C21", "C22", "C23">>]

NO_PREFERENCE == "NO_PREFERENCE"
EXTERNAL_FILE == "EXTERNAL_FILE"

(* ------------------------------ state ---------------------------------- *)

VARIABLES
    node,         \* osg::Geode per graph root: userData, stateSet, drawables
    drawable,     \* osg::Drawable: userData, stateSet
    stateSet,     \* osg::StateSet: userData, attributeList, textureAttributeList
    texture,      \* osg::Texture objects (originals and clones)
    image,        \* osg::Image objects: fileName, writeHint, userData, data
    bin,          \* records of the CacheBin, by key
    globalMutex,  \* WriteExternalReferencesToCache::_globalMutex: 0 or its owner
    thr,          \* per thread: position in writeNode and its locals
    calls,        \* writeNode calls started
    rejects,       \* writes the bin has rejected so far
    lastRead,     \* the last request served by the pseudo-loader
    image0,       \* the images as they were before any write
    texture0,     \* the original textures as they were before any write
    bin0,         \* the bin as it was before any write
    processed,    \* graphs over which a writeNode call has completed
    okWrites,     \* per key: asset writes the bin accepted
    failedWrites, \* per key: asset writes the bin rejected
    written,      \* per image: the key and bytes of its accepted asset write
    visit         \* per image: outcome of its last critical section

vars ==
    <<node, drawable, stateSet, texture, image, bin, globalMutex, thr, calls,
      rejects, lastRead, image0, texture0, bin0, processed, okWrites, failedWrites,
      written, visit>>

sceneVars == <<node, drawable, stateSet, texture>>

histVars == <<image0, texture0, bin0>>

Count(f, key) == IF key \in DOMAIN f THEN f[key] ELSE 0

Bump(f, key) == (key :> (Count(f, key) + 1)) @@ f

NoVisit == [seen |-> FALSE]

NoWrite == [done |-> FALSE]

NoRead == [entry |-> "none"]

IdleThread ==
    [pc |-> "idle", node |-> NullId, key |-> <<>>, d |-> 0, k |-> 0,
     path |-> <<>>, cacheKey |-> <<>>, rs |-> STATUS_NOT_FOUND, ret |-> FALSE,
     entered |-> FALSE, attempted |-> FALSE, graphWrite |-> "none",
     queries |-> 0, writes |-> 0, failed |-> {}, second |-> FALSE,
     names0 |-> <<>>, marked |-> FALSE, metadata |-> NullId,
     graphWrites |-> 0, writeOptions |-> NullOptions, assetOptions |-> {},
     graphOptions |-> {}]

\* A texture entry or another state attribute of a texture attribute list.
TexEntry(t) == [isTexture |-> TRUE, tex |-> t, userData |-> FALSE]

OtherEntry == [isTexture |-> FALSE, tex |-> NullId, userData |-> TRUE]

\* The initial file names: I2 hangs off the texture both graphs share.
InitialNames ==
    {[I1 |-> a, I2 |-> NameB, I3 |-> NameA] : a \in FileNames \ {NameB}}

\* The bin before the first write: the record of NameA's key is absent,
\* stale or valid; nothing else is stored.
InitialBins ==
    {<<>>} \cup
    {(cacheKeyOf(NameA) :>
        [status |-> s, payload |-> [kind |-> "image", data |-> "old"]]) :
        s \in {STATUS_OK, STATUS_EXPIRED}}

InitScene(cloneableT2) ==
    /\ node = [N1 |-> [userData |-> TRUE, stateSet |-> NullId,
                       drawables |-> <<"D1">>, nodeMask |-> AllBits],
               N2 |-> [userData |-> TRUE, stateSet |-> "S2",
                       drawables |-> <<"D2">>, nodeMask |-> {}]]
    /\ drawable = [D1 |-> [userData |-> TRUE, stateSet |-> "S1"],
                   D2 |-> [userData |-> TRUE, stateSet |-> NullId]]
    /\ stateSet =
         [S1 |-> [userData |-> TRUE, attributeList |-> <<TRUE>>,
                  textureAttributeList |-> <<TexEntry("T1"), TexEntry("T2")>>],
          S2 |-> [userData |-> TRUE, attributeList |-> <<TRUE, FALSE>>,
                  textureAttributeList |->
                      <<TexEntry("T2"), OtherEntry, TexEntry("T3")>>]]
    /\ texture =
          [T1 |-> [unRefImageDataAfterApply |-> TRUE, userData |-> TRUE,
                  cloneable |-> TRUE, images |-> <<"I1">>],
           T2 |-> [unRefImageDataAfterApply |-> TRUE, userData |-> TRUE,
                   cloneable |-> cloneableT2, images |-> <<"I2">>],
           T3 |-> [unRefImageDataAfterApply |-> FALSE, userData |-> FALSE,
                   cloneable |-> TRUE, images |-> <<"I3">>]]
    /\ \E names \in InitialNames :
         image = [i \in Images |->
                    [fileName |-> names[i], writeHint |-> NO_PREFERENCE,
                     userData |-> TRUE, data |-> i, rewrites |-> 0]]
    /\ globalMutex = 0
    /\ thr = [t \in Threads |-> IdleThread]
    /\ calls = 0
    /\ rejects = 0
    /\ lastRead = NoRead
    /\ image0 = image
    /\ texture0 = texture
    /\ processed = [n \in Nodes |-> FALSE]
    /\ okWrites = <<>>
    /\ failedWrites = <<>>
    /\ written = [i \in Images |-> NoWrite]
    /\ visit = [i \in Images |-> NoVisit]

\* The shared texture T2 is of a class osg::clone can copy, or (with an
\* empty bin) of one it cannot.
Init ==
    /\ bin \in InitialBins
    /\ bin0 = bin
    /\ \E cloneableT2 \in BOOLEAN :
          /\ ~cloneableT2 => bin = <<>>
          /\ InitScene(cloneableT2)

(* ------------------------- traversal helpers --------------------------- *)

RECURSIVE Flatten(_)
Flatten(ss) == IF ss = <<>> THEN <<>> ELSE Head(ss) \o Flatten(Tail(ss))

\* Images of the textures of one state set, in slot order (none for null).
ImagesOfStateSet(ss) ==
    IF ss = NullId THEN <<>>
    ELSE LET L == stateSet[ss].textureAttributeList
         IN  Flatten([n \in 1..Len(L) |->
                        IF L[n].isTexture THEN texture[L[n].tex].images
                        ELSE <<>>])

\* TextureAndImageVisitor over a graph: the node's state set, then the
\* state set of each drawable; every image of every texture found.
VisitList(n) ==
    IF validNodeMask(writeRefsNodeMaskOverride, node[n].nodeMask)
    THEN ImagesOfStateSet(node[n].stateSet) \o
         Flatten([d \in 1..Len(node[n].drawables) |->
                    ImagesOfStateSet(drawable[node[n].drawables[d]].stateSet)])
    ELSE <<>>

VisitSet(n) == {VisitList(n)[m] : m \in 1..Len(VisitList(n))}

Busy(t) == thr[t].pc \notin {"idle", "done"}

(* --------------------------- Graph Sanitizer --------------------------- *)

\* PrepareForCaching::apply(osg::StateSet*). osg::clone yields a clone for
\* the texture of slot n when the texture's class can be cloned, null
\* otherwise.
applyStateSet(ss) ==
    IF ss = NullId
    THEN UNCHANGED <<stateSet, texture, image>>
    ELSE
      LET L        == stateSet[ss].textureAttributeList
          texIdx   == {n \in 1..Len(L) : L[n].isTexture}
          cloned   == [n \in texIdx |-> texture[L[n].tex].cloneable]
          cloneIdx == {n \in texIdx : cloned[n]}
          slotOf(c) == CHOOSE n \in cloneIdx : CloneId[ss][n] = c
          unreffed ==
              [t \in DOMAIN texture |->
                 IF \E n \in texIdx : L[n].tex = t
                 THEN [texture[t] EXCEPT !.unRefImageDataAfterApply = FALSE]
                 ELSE texture[t]]
          stripped ==
              UNION {{texture[L[n].tex].images[m] :
                         m \in 1..Len(texture[L[n].tex].images)} :
                     n \in cloneIdx}
      IN
      /\ texture' =
           [c \in DOMAIN texture \cup {CloneId[ss][n] : n \in cloneIdx} |->
              IF \E n \in cloneIdx : CloneId[ss][n] = c
              THEN [unRefImageDataAfterApply |-> FALSE,
                    userData |-> FALSE, cloneable |-> TRUE,
                    images |-> texture[L[slotOf(c)].tex].images]
              ELSE unreffed[c]]
      /\ image' =
           [i \in Images |->
              IF i \in stripped THEN [image[i] EXCEPT !.userData = FALSE]
              ELSE image[i]]
      /\ stateSet' =
           [stateSet EXCEPT ![ss] =
              [userData |-> FALSE,
               attributeList |->
                   [n \in 1..Len(stateSet[ss].attributeList) |-> FALSE],
               textureAttributeList |->
                   [n \in 1..Len(L) |->
                      IF L[n].isTexture
                      THEN IF cloned[n] THEN TexEntry(CloneId[ss][n]) ELSE L[n]
                      ELSE [L[n] EXCEPT !.userData = FALSE]]]]

\* CacheBin::writeNode entered by thread t for the graph rooted at n.
Begin(t, n) ==
    /\ ~Busy(t)
    /\ \A u \in Threads : u < t => Busy(u)
    /\ calls < MaxCalls
    /\ \A u \in Threads \ {t} : Busy(u) => thr[u].node # n
    /\ calls' = calls + 1
    /\ thr' = [thr EXCEPT ![t] =
                 [IdleThread EXCEPT
                    !.pc = "prepare", !.node = n, !.key = GraphKey[n],
                    !.metadata = GraphMeta[n],
                    !.writeOptions = CallerOptions[n],
                    !.d = 1, !.second = processed[n],
                    !.names0 = [i \in VisitSet(n) |-> image[i].fileName]]]
    /\ UNCHANGED <<sceneVars, image, bin, globalMutex, rejects, lastRead, histVars,
                   processed, okWrites, failedWrites, written, visit>>

\* PrepareForCaching::apply(osg::Geode&), one drawable:
\* apply(osg::Drawable*).
PrepareDrawable(t) ==
    LET n == thr[t].node IN
    /\ thr[t].pc = "prepare"
    /\ validNodeMask(prepNodeMaskOverride, node[n].nodeMask)
    /\ thr[t].d <= Len(node[n].drawables)
    /\ LET dr == node[n].drawables[thr[t].d] IN
       /\ applyStateSet(drawable[dr].stateSet)
       /\ drawable' = [drawable EXCEPT ![dr].userData = FALSE]
    /\ thr' = [thr EXCEPT ![t].d = @ + 1]
    /\ UNCHANGED <<node, bin, globalMutex, calls, rejects, lastRead, histVars,
                   processed, okWrites, failedWrites, written, visit>>

\* PrepareForCaching::apply(osg::Node&) on the geode itself; the sanitizer
\* is then finished and the externalizer starts. (node->accept(prep) does
\* nothing at all on a node whose mask the visitor does not accept.)
PrepareNode(t) ==
    LET n == thr[t].node IN
    /\ thr[t].pc = "prepare"
    /\ IF validNodeMask(prepNodeMaskOverride, node[n].nodeMask)
       THEN /\ thr[t].d > Len(node[n].drawables)
            /\ applyStateSet(node[n].stateSet)
            /\ node' = [node EXCEPT ![n].userData = FALSE]
       ELSE UNCHANGED <<node, stateSet, texture, image>>
    /\ thr' = [thr EXCEPT ![t].pc = "visit", ![t].k = 1]
    /\ UNCHANGED <<drawable, bin, globalMutex, calls, rejects, lastRead, histVars,
                   processed, okWrites, failedWrites, written, visit>>

(* -------------------------- Asset Externalizer ------------------------- *)

\* What the bin may answer to a write: accepted, or (while rejects remain
\* to spend) rejected.
Verdicts == IF rejects < MaxRejects THEN BOOLEAN ELSE {TRUE}

CurrentImage(t) == VisitList(thr[t].node)[thr[t].k]

\* WriteExternalReferencesToCache::apply(osg::Image&), up to the mutex:
\* path = image.getFileName(); the blank-name warning; the first prefix test.
ReadFileName(t) ==
    /\ thr[t].pc = "visit"
    /\ thr[t].k <= Len(VisitList(thr[t].node))
    /\ LET path == image[CurrentImage(t)].fileName IN
       thr' = [thr EXCEPT
                 ![t].path = IF needsExternalize(path) THEN path ELSE <<>>,
                 ![t].pc   = IF needsExternalize(path) THEN "lock" ELSE "visit",
                 ![t].k    = IF needsExternalize(path) THEN @ ELSE @ + 1]
    /\ UNCHANGED <<sceneVars, image, bin, globalMutex, calls, rejects, lastRead,
                   histVars, processed, okWrites, failedWrites, written, visit>>

\* Threading::ScopedMutexLock lock(_globalMutex); the second prefix test,
\* made on the local copy `path`; then cacheKey is computed,
\* image.setFileName(cacheKey + ".osgearth_cachebin") and
\* image.setWriteHint(osg::Image::EXTERNAL_FILE). The image keeps count of
\* the setFileName calls made on it, and the thread notes whether the image
\* already carried the prefix when the mutex was acquired.
Lock(t) ==
    /\ thr[t].pc = "lock"
    /\ lockable(globalMutex)
    /\ globalMutex' = t
    /\ IF needsExternalize(thr[t].path)
       THEN LET cacheKey == cacheKeyOf(thr[t].path) IN
            /\ image' = [image EXCEPT
                           ![CurrentImage(t)].fileName =
                               rewrittenFileName(cacheKey),
                           ![CurrentImage(t)].writeHint = EXTERNAL_FILE,
                           ![CurrentImage(t)].rewrites = @ + 1]
            /\ thr' = [thr EXCEPT
                         ![t].cacheKey = cacheKey,
                         ![t].marked =
                             startsWith(image[CurrentImage(t)].fileName,
                                        IMAGE_PREFIX),
                         ![t].entered = TRUE, ![t].pc = "status"]
       ELSE /\ thr' = [thr EXCEPT ![t].pc = "unlock"]
            /\ UNCHANGED image
    /\ UNCHANGED <<sceneVars, bin, calls, rejects, lastRead, histVars,
                   processed, okWrites, failedWrites, written, visit>>

\* rs = _bin->getRecordStatus(cacheKey); if (rs != CacheBin::STATUS_OK) ...
Status(t) ==
    /\ thr[t].pc = "status"
    /\ LET rs == getRecordStatus(bin, thr[t].cacheKey) IN
       thr' = [thr EXCEPT ![t].rs = rs, ![t].queries = @ + 1,
                          ![t].pc = IF shouldWrite(rs) THEN "asset" ELSE "unlock"]
    /\ UNCHANGED <<sceneVars, image, bin, globalMutex, calls, rejects, lastRead,
                   histVars, processed, okWrites, failedWrites, written, visit>>

\* dbo = Registry::cloneOrCreateOptions(_writeOptions), stamped with
\* WriteImageHint; _bin->write(cacheKey, &image, dbo.get()); the bin accepts
\* or rejects it, and a rejection is only warned about.
WriteImage(t) ==
    LET i   == CurrentImage(t)
        key == thr[t].cacheKey
        opt == perWriteOptions(thr[t].writeOptions, thr[t].writes + 1)
    IN
    /\ thr[t].pc = "asset"
    /\ \E accepted \in Verdicts :
         IF accepted
         THEN /\ bin' = binWrite(bin, key,
                          [kind |-> "image", data |-> image[i].data,
                           fileName |-> image[i].fileName,
                           writeHint |-> image[i].writeHint])
              /\ okWrites' = Bump(okWrites, key)
              /\ written' = [written EXCEPT
                               ![i] = [done |-> TRUE, key |-> key,
                                       data |-> image[i].data]]
              /\ thr' = [thr EXCEPT ![t].attempted = TRUE,
                                    ![t].writes = @ + 1,
                                    ![t].writeOptions = opt.writeOptions,
                                    ![t].assetOptions = @ \cup {opt.dbo},
                                    ![t].pc = afterWrite(TRUE)]
              /\ UNCHANGED <<failedWrites, rejects>>
         ELSE /\ failedWrites' = Bump(failedWrites, key)
              /\ rejects' = rejects + 1
              /\ thr' = [thr EXCEPT ![t].attempted = TRUE,
                                    ![t].writes = @ + 1,
                                    ![t].failed = @ \cup {i},
                                    ![t].writeOptions = opt.writeOptions,
                                    ![t].assetOptions = @ \cup {opt.dbo},
                                    ![t].pc = afterWrite(FALSE)]
              /\ UNCHANGED <<bin, okWrites, written>>
    /\ UNCHANGED <<sceneVars, image, globalMutex, calls, lastRead, histVars,
                   processed, visit>>

\* End of the lock's scope: the mutex is released and apply returns.
Unlock(t) ==
    /\ thr[t].pc = "unlock"
    /\ globalMutex' = 0
    /\ visit' = IF thr[t].entered
                THEN [visit EXCEPT
                        ![CurrentImage(t)] =
                            [seen |-> TRUE, path |-> thr[t].path,
                             cacheKey |-> thr[t].cacheKey, rs |-> thr[t].rs,
                             attempted |-> thr[t].attempted]]
                ELSE visit
    /\ thr' = [thr EXCEPT ![t].pc = "visit", ![t].k = @ + 1,
                          ![t].path = <<>>, ![t].cacheKey = <<>>,
                          ![t].rs = STATUS_NOT_FOUND,
                          ![t].entered = FALSE, ![t].attempted = FALSE,
                          ![t].marked = FALSE]
    /\ UNCHANGED <<sceneVars, image, bin, calls, rejects, lastRead, histVars,
                   processed, okWrites, failedWrites, written>>

(* ----------------------------- Orchestrator ---------------------------- *)

\* write(key, node, metadata, writeOptions); return true;
WriteGraph(t) ==
    LET n == thr[t].node IN
    /\ thr[t].pc = "visit"
    /\ traversalFinished(thr[t].k, Len(VisitList(n)))
    /\ \E accepted \in Verdicts :
         /\ rejects' = IF accepted THEN rejects ELSE rejects + 1
         /\ bin' = IF accepted
                   THEN binWrite(bin, thr[t].key,
                                 [kind |-> "node", data |-> n,
                                  metadata |-> thr[t].metadata])
                   ELSE bin
         /\ thr' = [thr EXCEPT
                      ![t].graphWrite = IF accepted THEN "accepted" ELSE "rejected",
                      ![t].graphWrites = @ + 1,
                      ![t].graphOptions =
                          {graphWriteOptions(thr[t].writeOptions)},
                      ![t].ret = writeNodeResult(accepted),
                      ![t].pc = "done"]
    /\ processed' = [processed EXCEPT ![n] = TRUE]
    /\ UNCHANGED <<sceneVars, image, globalMutex, calls, lastRead, histVars,
                   okWrites, failedWrites, written, visit>>

(* --------------------------- Reference Resolver ------------------------ *)

FILE_NOT_HANDLED == "FILE_NOT_HANDLED"
FILE_NOT_FOUND   == "FILE_NOT_FOUND"
FILE_LOADED      == "FILE_LOADED"

NoResource == [kind |-> "none"]

Unserved(status) ==
    [status |-> status, resource |-> NoResource, binCall |-> "none",
     binKey |-> <<>>]

\* osgEarthReadImageFromCachePseudoLoader::readObject(url, readOptions);
\* hasBin tells whether CacheBin::get(readOptions) finds a bin.
readObjectUnhandledWithoutBin(url, hasBin) ==
    IF getLowerCaseFileExtension(url) # CACHEBIN_EXT \/ ~hasBin
    THEN Unserved(FILE_NOT_HANDLED)
    ELSE LET key == getNameLessExtension(url)
             rr  == binReadObject(bin, key)
         IN  [status |-> IF rr.succeeded THEN FILE_LOADED ELSE FILE_NOT_FOUND,
              resource |-> rr.resource, binCall |-> "readObject",
              binKey |-> key]

readObject(url, hasBin) ==
    IF getLowerCaseFileExtension(url) # CACHEBIN_EXT
    THEN Unserved(FILE_NOT_HANDLED)
    ELSE IF ~hasBin
    THEN Unserved(FILE_NOT_FOUND)
    ELSE LET key == getNameLessExtension(url)
             rr  == binReadObject(bin, key)
         IN  [status |-> IF rr.succeeded THEN FILE_LOADED ELSE FILE_NOT_FOUND,
              resource |-> rr.resource, binCall |-> "readObject",
              binKey |-> key]

\* osgEarthReadImageFromCachePseudoLoader::readImage(url, readOptions).
readImageThroughObject(url, hasBin) == readObject(url, hasBin)

readImage(url, hasBin) ==
    IF getLowerCaseFileExtension(url) # CACHEBIN_EXT
    THEN Unserved(FILE_NOT_HANDLED)
    ELSE IF ~hasBin
    THEN Unserved(FILE_NOT_FOUND)
    ELSE LET key == getNameLessExtension(url)
             rr  == binReadImage(bin, key)
         IN  [status |-> IF rr.succeeded THEN FILE_LOADED ELSE FILE_NOT_FOUND,
              resource |-> rr.resource, binCall |-> "readImage",
              binKey |-> key]

\* Requests made of the loader: the identifiers the images carry, the
\* graphs' keys with the extension, and a few fixed targets.
RequestUrls ==
    {image[i].fileName : i \in Images} \cup
    {rewrittenFileName(cacheKeyOf(name)) : name \in FileNames} \cup
    {GraphKey[n] \o CACHEBIN_SUFFIX : n \in Nodes} \cup
    {cacheKeyOf(NameA) \o <<".", "O", "S", "G", "E", "A", "R", "T", "H", "_",
                             "C", "A", "C", "H", "E", "B", "I", "N">>,
     <<"i", "_", ".", "x", ".", "o", "s", "g", "e", "a", "r", "t", "h", "_",
       "c", "a", "c", "h", "e", "b", "i", "n">>,
     <<"o", "s", "g", "e", "a", "r", "t", "h", "_",
       "c", "a", "c", "h", "e", "b", "i", "n">>}

LoadObject(url, hasBin) ==
    /\ lastRead' = [entry |-> "readObject", url |-> url, hasBin |-> hasBin,
                    result |-> readObject(url, hasBin)]
    /\ UNCHANGED <<sceneVars, image, bin, globalMutex, thr, calls, rejects, histVars,
                   processed, okWrites, failedWrites, written, visit>>

LoadImage(url, hasBin) ==
    /\ lastRead' = [entry |-> "readImage", url |-> url, hasBin |-> hasBin,
                    result |-> readImage(url, hasBin)]
    /\ UNCHANGED <<sceneVars, image, bin, globalMutex, thr, calls, rejects, histVars,
                   processed, okWrites, failedWrites, written, visit>>

(* --------------------------- specifications ---------------------------- *)

Next ==
    \E t \in Threads :
       \/ \E n \in Nodes : Begin(t, n)
       \/ PrepareDrawable(t)
       \/ PrepareNode(t)
       \/ ReadFileName(t)
       \/ Lock(t)
       \/ Status(t)
       \/ WriteImage(t)
       \/ Unlock(t)
       \/ WriteGraph(t)

Spec == Init /\ [][Next]_vars

\* A step of thread t inside writeNode.
ThreadStep(t) ==
    \/ PrepareDrawable(t)
    \/ PrepareNode(t)
    \/ ReadFileName(t)
    \/ Lock(t)
    \/ Status(t)
    \/ WriteImage(t)
    \/ Unlock(t)
    \/ WriteGraph(t)

\* The runs followed to their end: an empty bin, textures that can be
\* cloned, and image I1 either without an identifier or with the one I3 has.
InitFair ==
    /\ bin = <<>>
    /\ bin0 = bin
    /\ InitScene(TRUE)
    /\ image["I1"].fileName \in {BlankName, NameA}

\* Fair scheduling: a thread that can take a step inside writeNode is not
\* kept from it for ever; the calls of the bin are steps, so they return.
FairSpec ==
    /\ InitFair
    /\ [][Next]_vars
    /\ \A t \in Threads : WF_vars(ThreadStep(t))

\* The pseudo-loader taken alone: the bin holds any mix of absent, valid and
\* stale records under two asset keys and one graph key, and requests arrive.
StoredAs(key, status, payload) ==
    IF status = STATUS_NOT_FOUND THEN <<>>
    ELSE key :> [status |-> status, payload |-> payload]

LoaderBins ==
    {StoredAs(cacheKeyOf(NameA), sa, [kind |-> "image", data |-> "I3"]) @@
     StoredAs(cacheKeyOf(BlankName), sb, [kind |-> "image", data |-> "I1"]) @@
     StoredAs(GraphKey["N1"], sg, [kind |-> "node", data |-> "N1"]) :
        sa \in RecordStatus, sb \in RecordStatus, sg \in RecordStatus}

InitLoader ==
    /\ bin \in LoaderBins
    /\ bin0 = bin
    /\ InitScene(TRUE)

NextLoader ==
    \E url \in RequestUrls, hasBin \in BOOLEAN :
       \/ LoadObject(url, hasBin)
       \/ LoadImage(url, hasBin)

SpecLoader == InitLoader /\ [][NextLoader]_vars

(* ------------------------------- claims -------------------------------- *)

AllQuiet == \A t \in Threads : ~Busy(t)

\* Image i belongs to a graph over which a writeNode call has completed.
Covered(i) == \E n \in Nodes : processed[n] /\ i \in VisitSet(n)

\* The identifier the spec gives an externalized image: the prefix, the
\* lower-case hex hash of the original identifier, the indirection marker.
MarkedName(original) ==
    IMAGE_PREFIX \o Hex(hashString(original)) \o CACHEBIN_SUFFIX

OriginalName(i) == image0[i].fileName

\* The target ends in ".osgearth_cachebin", in any letter case.
CarriesMarker(url) ==
    /\ Len(url) >= Len(CACHEBIN_SUFFIX)
    /\ convertToLowerCase(
          SubSeq(url, Len(url) - Len(CACHEBIN_SUFFIX) + 1, Len(url)))
       = CACHEBIN_SUFFIX

WithoutMarker(url) == SubSeq(url, 1, Len(url) - Len(CACHEBIN_SUFFIX))

\* C1 as stated: once all writers have finished, the bin has accepted exactly
\* one asset write for the derived key of every image of a written graph, and
\* every such image carries derivedKey + ".osgearth_cachebin".
C1_ExactlyOneWrite ==
    AllQuiet =>
      \A i \in Images :
         Covered(i) =>
           LET key == IMAGE_PREFIX \o Hex(hashString(OriginalName(i))) IN
           /\ Count(okWrites, key) = 1
           /\ image[i].fileName = key \o CACHEBIN_SUFFIX

\* C1 amended: the bin never accepts more than one asset write for a key; and
\* once all writers have finished, every image of a written graph whose
\* original identifier does not begin with "i_" carries
\* derivedKey + ".osgearth_cachebin", and its key has been accepted exactly
\* once if the key's record was not valid beforehand and the bin rejected no
\* write of it.
C1_Dedup ==
    /\ \A key \in DOMAIN okWrites : okWrites[key] <= 1
    /\ AllQuiet =>
         \A i \in Images :
            (Covered(i) /\ ~startsWith(OriginalName(i), IMAGE_PREFIX)) =>
               LET key == IMAGE_PREFIX \o Hex(hashString(OriginalName(i))) IN
               /\ image[i].fileName = key \o CACHEBIN_SUFFIX
               /\ (getRecordStatus(bin0, key) # STATUS_OK
                     /\ Count(failedWrites, key) = 0)
                  => Count(okWrites, key) = 1

\* C1 witness: two overlapping calls (thread 2 only starts while thread 1 is
\* inside writeNode) have finished on graphs whose images I1 and I3 share an
\* original identifier; one write was accepted and both images are renamed.
C1_Witness ==
    /\ AllQuiet
    /\ thr[2].pc = "done"
    /\ processed["N1"] /\ processed["N2"]
    /\ OriginalName("I1") = OriginalName("I3")
    /\ Count(okWrites, IMAGE_PREFIX \o Hex(hashString(OriginalName("I1")))) = 1
    /\ image["I1"].fileName = MarkedName(OriginalName("I1"))
    /\ image["I3"].fileName = image["I1"].fileName

\* The texture both graphs reference: whichever graph is being written, it is
\* also referenced from outside that graph.
SharedTextures == {"T2"}

\* C2: a texture reachable from the graph and referenced from outside it
\* keeps its unref-image-data-after-apply flag and its user data through the
\* sanitizer and at every later step.
C2_SharedTextureUntouched ==
    \A x \in SharedTextures :
       /\ texture[x].unRefImageDataAfterApply =
             texture0[x].unRefImageDataAfterApply
       /\ texture[x].userData = texture0[x].userData

\* C3: a writeNode call over a graph already processed by an earlier call
\* makes no status query and no asset write, and leaves every image
\* identifier of the graph as the first pass left it, with one prefix.
C3_SecondPassIdle ==
    \A t \in Threads :
       thr[t].second =>
          /\ thr[t].queries = 0
          /\ thr[t].writes = 0
          /\ \A i \in DOMAIN thr[t].names0 :
                /\ image[i].fileName = thr[t].names0[i]
                /\ startsWith(image[i].fileName, IMAGE_PREFIX)
                /\ ~startsWith(Tail(Tail(image[i].fileName)), IMAGE_PREFIX)

\* C3 witness: a second pass has completed over a graph holding an image
\* that the first pass renamed.
C3_Witness ==
    \E t \in Threads :
       /\ thr[t].second
       /\ thr[t].pc = "done"
       /\ \E i \in DOMAIN thr[t].names0 :
             /\ ~startsWith(OriginalName(i), IMAGE_PREFIX)
             /\ image[i].fileName = MarkedName(OriginalName(i))

\* C4: a call in which the bin rejected asset writes has still visited every
\* image, has renamed each image whose write failed to
\* derivedKey + ".osgearth_cachebin" with hint EXTERNAL_FILE, has attempted
\* the graph write under the caller's key, and has returned true.
C4_RejectedAssetWrite ==
    \A t \in Threads :
       (thr[t].pc = "done" /\ thr[t].failed # {}) =>
          /\ thr[t].k > Len(VisitList(thr[t].node))
          /\ \A i \in VisitSet(thr[t].node) :
                startsWith(image[i].fileName, IMAGE_PREFIX)
          /\ \A i \in thr[t].failed :
                /\ image[i].fileName = MarkedName(OriginalName(i))
                /\ image[i].writeHint = EXTERNAL_FILE
          /\ thr[t].graphWrite \in {"accepted", "rejected"}
          /\ thr[t].key = GraphKey[thr[t].node]
          /\ thr[t].graphWrite = "accepted" =>
                /\ thr[t].key \in DOMAIN bin
                /\ bin[thr[t].key].payload.kind = "node"
                /\ bin[thr[t].key].payload.data = thr[t].node
          /\ thr[t].ret = TRUE

\* C4 witness: a finished call whose first image's asset write was rejected.
C4_Witness ==
    \E t \in Threads :
       /\ thr[t].pc = "done"
       /\ thr[t].failed # {}
       /\ VisitList(thr[t].node)[1] \in thr[t].failed
       /\ thr[t].graphWrite = "accepted"
       /\ thr[t].ret

\* C5: writeNode returns false when the final graph write is rejected and
\* true otherwise.
C5_ReturnsWriteResult ==
    \A t \in Threads :
       thr[t].pc = "done" => (thr[t].ret <=> thr[t].graphWrite = "accepted")

\* C6: a request for a target carrying the marker extension, made with no
\* Cache Bin in the options, yields FILE_NOT_FOUND through either entry
\* point, and the bin is not read.
C6_NoBinNotFound ==
    (lastRead.entry # "none" /\ CarriesMarker(lastRead.url)
        /\ ~lastRead.hasBin) =>
       /\ lastRead.result.status = FILE_NOT_FOUND
       /\ lastRead.result.binCall = "none"

\* C6 witness: readObject was asked for a stored key's marked name without a
\* bin in the options.
C6_Witness ==
    /\ lastRead.entry = "readObject"
    /\ ~lastRead.hasBin
    /\ CarriesMarker(lastRead.url)
    /\ WithoutMarker(lastRead.url) \in DOMAIN bin
    /\ lastRead.result.status = FILE_NOT_FOUND

\* C7: for every image whose asset write was accepted, stripping the
\* extension from its identifier gives the key it was written under, and
\* readImage of that identifier with the bin in the options succeeds with
\* the bytes that write stored.
C7_KeyRoundTrip ==
    \A i \in Images :
       written[i].done =>
          LET loaded == readImage(image[i].fileName, TRUE) IN
          /\ getNameLessExtension(image[i].fileName) = written[i].key
          /\ loaded.status = FILE_LOADED
          /\ loaded.resource.kind = "image"
          /\ loaded.resource.data = written[i].data
          /\ written[i].data = image[i].data

\* C7 witness: two images have been written and resolve to different bytes.
C7_Witness ==
    \E i, j \in Images :
       /\ written[i].done /\ written[j].done
       /\ readImage(image[i].fileName, TRUE).resource.data = i
       /\ readImage(image[j].fileName, TRUE).resource.data = j
       /\ i # j

\* C8: an image whose identifier is blank is skipped: it is never taken
\* into the critical section, and keeps its identifier and write hint.
C8_BlankSkipped ==
    \A i \in Images :
       OriginalName(i) = <<>> =>
          /\ image[i].fileName = <<>>
          /\ image[i].writeHint = image0[i].writeHint
          /\ ~visit[i].seen
          /\ \A t \in Threads :
                (Busy(t) /\ thr[t].pc \in {"lock", "status", "asset", "unlock"})
                   => CurrentImage(t) # i

\* C9: for an image taken into the critical section, a write of the derived
\* key was attempted exactly when the status found was EXPIRED or NOT_FOUND,
\* and in every case the image is renamed to derivedKey + marker; once all
\* writers have finished, every image of a written graph whose identifier
\* lacked the prefix has been taken through it.
C9_OnlyOkSuppresses ==
    /\ \A i \in Images :
          visit[i].seen =>
             /\ visit[i].attempted <=>
                   visit[i].rs \in {STATUS_EXPIRED, STATUS_NOT_FOUND}
             /\ visit[i].cacheKey = IMAGE_PREFIX \o Hex(hashString(visit[i].path))
             /\ visit[i].path = OriginalName(i)
             /\ image[i].fileName = visit[i].cacheKey \o CACHEBIN_SUFFIX
    /\ AllQuiet =>
          \A i \in Images :
             (Covered(i) /\ ~startsWith(OriginalName(i), IMAGE_PREFIX))
                => visit[i].seen

\* C9 witness: two images of the same original identifier; the first was
\* written, the second found the record valid, was not written, and carries
\* the same new identifier.
C9_Witness ==
    \E i, j \in Images :
       /\ i # j
       /\ visit[i].seen /\ visit[j].seen
       /\ visit[i].attempted /\ written[i].done
       /\ visit[j].rs = STATUS_OK /\ ~visit[j].attempted
       /\ image[i].fileName = image[j].fileName

\* C10: with a bin in the options, a request for a marked target reads the
\* bin through the entry point's own method only, under the target minus its
\* extension; it loads the stored resource when that read succeeds and is
\* FILE_NOT_FOUND otherwise.
C10_Dispatch ==
    (lastRead.entry # "none" /\ CarriesMarker(lastRead.url)
        /\ lastRead.hasBin) =>
       LET key    == WithoutMarker(lastRead.url)
           stored == key \in DOMAIN bin
           found  == IF lastRead.entry = "readImage"
                     THEN stored /\ bin[key].payload.kind = "image"
                     ELSE stored
       IN
       /\ lastRead.result.binCall = lastRead.entry
       /\ lastRead.result.binKey = key
       /\ lastRead.result.status \in {FILE_LOADED, FILE_NOT_FOUND}
       /\ lastRead.result.status = FILE_LOADED <=> found
       /\ found => lastRead.result.resource = bin[key].payload

\* C10 witness: readImage loaded a stored image, and the same bin holds a
\* graph that readImage would not return.
C10_Witness ==
    /\ lastRead.entry = "readImage"
    /\ lastRead.hasBin
    /\ CarriesMarker(lastRead.url)
    /\ lastRead.result.status = FILE_LOADED
    /\ lastRead.result.resource.kind = "image"
    /\ GraphKey["N1"] \in DOMAIN bin

\* C11: a thread that is inside the critical section past the re-check found
\* the image's identifier, as it was when the mutex was acquired, without the
\* prefix; a thread that found it marked computes no key, makes no query,
\* no write and no rewrite; and no Image object is rewritten more than once.
C11_RecheckOnImage ==
    /\ \A t \in Threads : thr[t].entered => ~thr[t].marked
    /\ \A i \in Images : image[i].rewrites <= 1

\* Thread t is between acquiring and releasing the global mutex.
Inside(t) == thr[t].pc \in {"status", "asset", "unlock"}

\* C12: at most one thread is between acquiring and releasing the global
\* mutex and that thread is its holder; and every step that makes a status
\* query or an asset write, or changes an image's identifier or write hint,
\* is taken by the thread that holds the mutex.
C12_MutualExclusion ==
    /\ [](\A t, u \in Threads :
            /\ (Inside(t) /\ Inside(u)) => t = u
            /\ Inside(t) => globalMutex = t)
    /\ [][/\ \A t \in Threads :
               (\/ thr'[t].queries > thr[t].queries
                \/ thr'[t].writes > thr[t].writes)
                  => (globalMutex = t /\ globalMutex' = t)
          /\ \A i \in Images :
               (\/ image'[i].fileName # image[i].fileName
                \/ image'[i].writeHint # image[i].writeHint
                \/ image'[i].rewrites # image[i].rewrites)
                  => \E t \in Threads :
                        /\ globalMutex' = t
                        /\ thr'[t].pc = "status"
                        /\ thr[t].pc = "lock"
                        /\ CurrentImage(t) = i
          /\ \A key \in DOMAIN okWrites' \cup DOMAIN failedWrites' :
               (\/ Count(okWrites', key) > Count(okWrites, key)
                \/ Count(failedWrites', key) > Count(failedWrites, key))
                  => \E t \in Threads :
                        /\ globalMutex = t
                        /\ thr[t].cacheKey = key]_vars

\* C12 witness: one thread is inside the section about to write an asset
\* while the other, having read an identifier that yields the same key,
\* waits for the mutex.
C12_Witness ==
    \E t, u \in Threads :
       /\ t # u
       /\ thr[t].pc = "asset"
       /\ globalMutex = t
       /\ thr[u].pc = "lock"
       /\ cacheKeyOf(thr[u].path) = thr[t].cacheKey

\* State set ss has been through the sanitizer (its own user data is the
\* last thing apply(osg::StateSet*) strips).
Sanitized(ss) == ~stateSet[ss].userData

\* Texture x occupies a texture slot of state set ss.
InSlot(ss, x) ==
    \E n \in 1..Len(stateSet[ss].textureAttributeList) :
       /\ stateSet[ss].textureAttributeList[n].isTexture
       /\ stateSet[ss].textureAttributeList[n].tex = x

\* C13: a texture whose shallow clone cannot be produced is, after the
\* sanitizer has handled the state set that holds it, still in its slot and
\* exactly as it was before: same unref-after-apply flag, same user data,
\* and its images keep their user data.
C13_CloneFailureLeavesOriginal ==
    \A x \in DOMAIN texture0 :
       ~texture0[x].cloneable =>
          \A ss \in StateSets :
             (Sanitized(ss) /\ InSlot(ss, x)) =>
                /\ texture[x] = texture0[x]
                /\ \A m \in 1..Len(texture0[x].images) :
                      image[texture0[x].images[m]].userData =
                         image0[texture0[x].images[m]].userData

\* The state sets of the graph rooted at n: the node's and its drawables'.
StateSetsOf(n) ==
    ({node[n].stateSet} \cup
     {drawable[node[n].drawables[d]].stateSet :
         d \in 1..Len(node[n].drawables)}) \ {NullId}

\* Texture x and each of its images are without user data.
TextureStripped(x) ==
    /\ ~texture[x].userData
    /\ \A m \in 1..Len(texture[x].images) :
          ~image[texture[x].images[m]].userData

\* Everything of the graph rooted at n but its textures is without user
\* data: the node, its drawables, the state sets, their state attributes
\* and the non-texture entries of their texture attribute lists.
StructureStripped(n) ==
    /\ ~node[n].userData
    /\ \A d \in 1..Len(node[n].drawables) :
          ~drawable[node[n].drawables[d]].userData
    /\ \A ss \in StateSetsOf(n) :
          /\ ~stateSet[ss].userData
          /\ \A a \in 1..Len(stateSet[ss].attributeList) :
                ~stateSet[ss].attributeList[a]
          /\ \A e \in 1..Len(stateSet[ss].textureAttributeList) :
                ~stateSet[ss].textureAttributeList[e].isTexture =>
                   ~stateSet[ss].textureAttributeList[e].userData

\* The textures in the texture slots of the graph rooted at n.
SlotTextures(n) ==
    {x \in DOMAIN texture : \E ss \in StateSetsOf(n) : InSlot(ss, x)}

PastSanitizer(t) == thr[t].pc \notin {"idle", "prepare"}

\* C14 as stated: once the sanitizer of a call has finished, nothing the
\* graph references has user data: node, drawables, state sets, state
\* attributes, every texture in a texture slot and every image of those.
C14_AllStripped ==
    \A t \in Threads :
       PastSanitizer(t) =>
          /\ StructureStripped(thr[t].node)
          /\ \A x \in SlotTextures(thr[t].node) : TextureStripped(x)

\* C14 amended: once the sanitizer of a call has finished, whatever the
\* node mask, the node, its drawables, the state sets, their state attributes
\* and non-texture entries have no user data, and neither has any texture
\* in a slot that is a clone the sanitizer produced, nor any image of such
\* a texture; a texture that could not be cloned stays in its slot.
C14_StrippedUnlessCloneFailed ==
    \A t \in Threads :
       PastSanitizer(t) =>
          /\ StructureStripped(thr[t].node)
          /\ \A x \in SlotTextures(thr[t].node) :
                /\ x \notin DOMAIN texture0 => TextureStripped(x)
                /\ x \in DOMAIN texture0 => ~texture0[x].cloneable

\* C14 witness: the sanitizer has finished over the graph whose root has
\* node mask 0, and over the other graph it left in a slot a texture it
\* could not clone, which still has its user data.
C14_Witness ==
    \E t, u \in Threads :
       /\ PastSanitizer(t) /\ thr[t].node = "N2"
       /\ node["N2"].nodeMask = {}
       /\ ~node["N2"].userData
       /\ PastSanitizer(u) /\ thr[u].node = "N1"
       /\ \E x \in SlotTextures("N1") :
             x \in DOMAIN texture0 /\ texture[x].userData

\* C15: within one call the sanitizer has finished over the whole graph
\* before the externalizer visits an image; the graph is written exactly
\* once, after every image has been visited, under the caller's key and with
\* the caller's metadata; and after the graph write the call makes no
\* status query and no asset write.
C15_PipelineOrder ==
    /\ [](\A t \in Threads :
            LET n == thr[t].node IN
            /\ thr[t].pc = "prepare" =>
                  /\ thr[t].k = 0 /\ thr[t].queries = 0 /\ thr[t].writes = 0
                  /\ thr[t].graphWrites = 0
            /\ thr[t].pc \in {"visit", "lock", "status", "asset", "unlock"} =>
                  /\ thr[t].d = Len(node[n].drawables) + 1
                  /\ StructureStripped(n)
                  /\ thr[t].graphWrites = 0
            /\ thr[t].pc = "done" =>
                  /\ thr[t].graphWrites = 1
                  /\ thr[t].k = Len(VisitList(n)) + 1
                  /\ thr[t].key = GraphKey[n]
                  /\ thr[t].metadata = GraphMeta[n]
                  /\ thr[t].graphWrite = "accepted" =>
                        /\ thr[t].key \in DOMAIN bin
                        /\ bin[thr[t].key].payload =
                              [kind |-> "node", data |-> n,
                               metadata |-> GraphMeta[n]])
    /\ [][\A t \in Threads :
            /\ thr'[t].graphWrites > thr[t].graphWrites =>
                  /\ thr[t].pc = "visit"
                  /\ thr[t].k = Len(VisitList(thr[t].node)) + 1
                  /\ thr'[t].pc = "done"
            /\ (thr[t].graphWrites = 1 /\ thr'[t].pc # "prepare") =>
                  thr'[t] = thr[t]]_vars

\* C15 witness: a call has returned after two status queries, an asset
\* write and an accepted graph write, and the bin holds the graph with the
\* caller's metadata.
C15_Witness ==
    \E t \in Threads :
       /\ thr[t].pc = "done"
       /\ thr[t].queries >= 2
       /\ thr[t].writes >= 1
       /\ thr[t].graphWrite = "accepted"
       /\ bin[thr[t].key].payload.metadata = thr[t].metadata

\* C16: while a thread that found the image unmarked is at the status query
\* or at the asset write, the image still carries the identifier the thread
\* read and its original write hint; and the image the bin stored on an
\* accepted asset write carries the original identifier and write hint.
C16_RewriteAfterWrite ==
    /\ \A t \in Threads :
          (thr[t].pc \in {"status", "asset"} /\ ~thr[t].marked) =>
             /\ image[CurrentImage(t)].fileName = thr[t].path
             /\ image[CurrentImage(t)].writeHint =
                   image0[CurrentImage(t)].writeHint
    /\ \A i \in Images :
          (written[i].done
             /\ bin[written[i].key].payload.kind = "image"
             /\ bin[written[i].key].payload.data = i) =>
                /\ bin[written[i].key].payload.fileName = OriginalName(i)
                /\ bin[written[i].key].payload.writeHint = image0[i].writeHint

HasIncludeData(options) ==
    /\ "WriteImageHint" \in DOMAIN options.pluginStringData
    /\ options.pluginStringData["WriteImageHint"] = "IncludeData"

\* Options o are a copy of the caller's options c with the hint added:
\* another object, the same plugin data under every other key.
StampedCopyOf(o, c) ==
    /\ o.object.kind = "dbo"
    /\ o.object # c.object
    /\ HasIncludeData(o)
    /\ DOMAIN o.pluginStringData =
          DOMAIN c.pluginStringData \cup {"WriteImageHint"}
    /\ \A k \in DOMAIN c.pluginStringData \ {"WriteImageHint"} :
          o.pluginStringData[k] = c.pluginStringData[k]

\* C17: throughout a call the caller's write options are as the caller
\* passed them; every asset write of the call received an options object of
\* its own, a copy of the caller's carrying WriteImageHint=IncludeData; and
\* the graph write received the caller's options, without that hint.
C17_HintOnCopyOnly ==
    \A t \in Threads :
       thr[t].pc # "idle" =>
          LET caller == CallerOptions[thr[t].node] IN
          /\ thr[t].writeOptions = caller
          /\ Cardinality(thr[t].assetOptions) = thr[t].writes
          /\ \A o \in thr[t].assetOptions : StampedCopyOf(o, caller)
          /\ thr[t].pc = "done" =>
                /\ thr[t].graphOptions = {caller}
                /\ \A o \in thr[t].graphOptions : ~HasIncludeData(o)

\* C17 witness: a call made with options of the caller's own has returned
\* after two asset writes and its graph write.
C17_Witness ==
    \E t \in Threads :
       /\ thr[t].pc = "done"
       /\ CallerOptions[thr[t].node] # NullOptions
       /\ thr[t].writes = 2
       /\ Cardinality(thr[t].assetOptions) = 2
       /\ thr[t].graphOptions # {}

\* C18: the global mutex is held by a thread exactly while that thread is
\* between acquiring and releasing it (so it is released on every path out
\* of the section and is free when no externalizer is inside), it is only
\* ever acquired when free, and under fair scheduling, whenever calls of
\* writeNode are in progress, a moment comes at which all of them have
\* returned.
C18_Completes ==
    /\ [](/\ globalMutex \in Threads \cup {0}
          /\ \A t \in Threads : Inside(t) <=> globalMutex = t)
    /\ [][\A t \in Threads :
            (globalMutex' = t /\ globalMutex # t) =>
               (globalMutex = 0 /\ thr[t].pc = "lock")]_vars
    /\ (\E t \in Threads : Busy(t)) ~>
          (\A t \in Threads : thr[t].pc \in {"idle", "done"})

\* C18 witness: two overlapping calls have returned and the mutex is free,
\* after the section was left on each of its paths: an accepted write, a
\* rejected write, and a record found valid.
C18_Witness ==
    /\ thr[1].pc = "done" /\ thr[2].pc = "done"
    /\ globalMutex = 0
    /\ okWrites # <<>>
    /\ failedWrites # <<>>
    /\ \E i \in Images : visit[i].seen /\ visit[i].rs = STATUS_OK

\* C19: an image whose original identifier begins with "i_" is never taken
\* into the critical section: no status query and no bin write is made for
\* it, and its identifier and write hint stay as they were, so the
\* identifier lacks the indirection extension and no record of the bin holds
\* the image's bytes.
C19_PrefixedNameSkipped ==
    \A i \in Images :
       startsWith(OriginalName(i), IMAGE_PREFIX) =>
          /\ image[i].fileName = OriginalName(i)
          /\ image[i].writeHint = image0[i].writeHint
          /\ image[i].rewrites = 0
          /\ ~CarriesMarker(image[i].fileName)
          /\ ~visit[i].seen
          /\ ~written[i].done
          /\ \A t \in Threads :
                thr[t].pc \in {"lock", "status", "asset", "unlock"} =>
                   CurrentImage(t) # i
          /\ \A key \in DOMAIN bin :
                ~(bin[key].payload.kind = "image" /\ bin[key].payload.data = i)

\* C19 witness: all calls have returned, one of them over the graph of an
\* image originally named "i_p.png"; the bin has no record under the key
\* derived from that name and the loader does not handle the identifier.
C19_Witness ==
    /\ AllQuiet
    /\ Covered("I1")
    /\ OriginalName("I1") = NamePrefixed
    /\ image["I1"].fileName = NamePrefixed
    /\ getRecordStatus(bin, cacheKeyOf(NamePrefixed)) = STATUS_NOT_FOUND
    /\ readImage(image["I1"].fileName, TRUE).status = FILE_NOT_HANDLED
    /\ okWrites # <<>>

====
